---- MODULE Spec2Model ----
(***************************************************************************)
(* Model of server.js: an express server with four API routes that proxy   *)
(* to the ElevenLabs provider, persist audio under public/audios, store    *)
(* uploads under uploads/ and create project folders under public/.        *)
(* Every request is a process; each action is one run-to-completion        *)
(* segment of a handler, i.e. the code between two awaits.                 *)
(***************************************************************************)
EXTENDS Integers, Sequences, FiniteSets, TLC

\* ---------------------------------------------------------------- bounds
NumReq == 2        \* requests handled during one run
MaxClock == 1      \* Date.now() ranges over 0..MaxClock
MaxChunks == 1     \* chunks the upstream generator yields at most

Req == 1..NumReq

\* ---------------------------------------------------------------- inputs
Undefined == "<undefined>"
Texts == {Undefined, "", "Ola"}
Voices == {Undefined, "v1"}
Byte == {1, 2}
Chunk == {<<b>> : b \in Byte}
OriginalName == <<"a", ".", "w", "a", "v">>

Lower == {"a","b","c","d","e","f","g","h","i","j","k","l","m",
          "n","o","p","q","r","s","t","u","v","w","x","y","z"}
Upper == {"A","B","C","D","E","F","G","H","I","J","K","L","M",
          "N","O","P","Q","R","S","T","U","V","W","X","Y","Z"}
Digit == {"0","1","2","3","4","5","6","7","8","9"}

MyProject == <<"M","y"," ","P","r","o","j","e","c","t","!">>
My_Project_ == <<"M","y","_","P","r","o","j","e","c","t","_">>
ProjectNames == { MyProject, My_Project_,
                  <<"a","u","d","i","o","s">>,
                  <<"a","-","Z","_","9">>,
                  <<"a","/","Z","?","9">> }
ProjectNameInputs ==
    {[kind |-> "undefined", chars |-> <<>>], [kind |-> "number", chars |-> <<"7">>],
     [kind |-> "string", chars |-> <<>>]}
    \cup {[kind |-> "string", chars |-> n] : n \in ProjectNames}

\* ---------------------------------------------------------------- state
VARIABLES ELEVEN_API_KEY,  \* process.env.ELEVEN_API_KEY is set
          XI_API_KEY,      \* process.env.XI_API_KEY is set
          now,             \* Date.now()
          audios,          \* public/audios: filename -> bytes
          uploads,         \* uploads/: set of stored temp file names
          dirs,            \* directory entries directly under public/
          req              \* per request: handler position, locals, response

vars == <<ELEVEN_API_KEY, XI_API_KEY, now, audios, uploads, dirs, req>>

NoFile == <<>>
NoUrl == [dir |-> "", file |-> NoFile]
NoName == [kind |-> "undefined", chars |-> <<>>]

IdleReq == [route |-> "none", pc |-> "idle", text |-> Undefined, voice |-> Undefined,
            file |-> NoFile, projectName |-> NoName, chunks |-> <<>>, buffer |-> <<>>,
            filename |-> NoFile, calls |-> 0, opened |-> FALSE, sawExists |-> FALSE,
            unlinkFailed |-> FALSE,
            status |-> 0, body |-> "none", msg |-> "", audioUrl |-> NoUrl]

\* line 44
ELEVEN_KEY == ELEVEN_API_KEY \/ XI_API_KEY

\* lines 24-31: the three folders exist once the module is loaded
Init ==
    /\ ELEVEN_API_KEY \in BOOLEAN
    /\ XI_API_KEY \in BOOLEAN
    /\ now = 0
    /\ audios = <<>>
    /\ uploads = {}
    /\ dirs = {<<"a","u","d","i","o","s">>}
    /\ req = [r \in Req |-> IdleReq]

\* ---------------------------------------------------------------- helpers
MsgTextRequired == "Texto e obrigatorio"
MsgNotConfigured == "ElevenLabs API key nao configurada"
MsgGenerateError == "Erro ao gerar audio"
MsgFileRequired == "Arquivo de audio e obrigatorio (field: audio)"
MsgVoiceRequired == "voice e obrigatorio"
MsgS2SError == "Erro no speech-to-speech"
MsgNoFile == "Nenhum arquivo recebido"
MsgNameRequired == "projectName e obrigatorio"
MsgExists == "Projeto ja existe."
MsgCreated == "Pasta do projeto criada com sucesso!"
MsgMkdirError == "Erro ao criar pasta"

\* a test for undefined only, which lets the empty string through
FalsyNoEmpty(x) == x = Undefined

\* JavaScript !x on a string-or-undefined value
Falsy(x) == x = Undefined \/ x = ""

\* res.status(s).json({error: m}) / res.json({message: m}); the handler
\* returns, so its locals chunks, buffer and filename are gone
Answer(r, s, m) ==
    [req[r] EXCEPT !.pc = "done", !.status = s, !.body = "json", !.msg = m,
                   !.chunks = <<>>, !.buffer = <<>>, !.filename = NoFile]

\* multer passes its error to next(err); server.js registers no error
\* middleware, so express's default handler answers with an HTML page
DefaultErrorHandler(q) ==
    [q EXCEPT !.pc = "done", !.status = 500, !.body = "html", !.msg = "MulterError"]

RECURSIVE Concat(_)
\* Buffer.concat(chunks)
Concat(cs) == IF cs = <<>> THEN <<>> ELSE Head(cs) \o Concat(Tail(cs))

\* fs.writeFile opens with flag 'w': the file is created or truncated
Truncate(fs, name) == [f \in DOMAIN fs \cup {name} |-> IF f = name THEN <<>> ELSE fs[f]]

\* write(fd, bytes) at offset 0 of an open file
WriteAt0(fs, name, bytes) ==
    [f \in DOMAIN fs \cup {name} |->
        IF f = name
        THEN IF name \in DOMAIN fs
             THEN bytes \o SubSeq(fs[name], Len(bytes) + 1, Len(fs[name]))
             ELSE bytes
        ELSE fs[f]]

\* path.posix.join('audios', filename)
PublicPath(filename) == [dir |-> "audios", file |-> filename]

\* line 34: express.static(PUBLIC_DIR) serving audios/<name>
ServeStatic(url) ==
    IF url.dir = "audios" /\ url.file \in DOMAIN audios
    THEN [status |-> 200, bytes |-> audios[url.file]]
    ELSE [status |-> 404, bytes |-> <<>>]

\* the same replacement without the i flag
SanitizeCharNoI(c) == IF c \in Lower \cup Digit \cup {"-", "_"} THEN c ELSE "_"

\* line 149: one character of projectName.replace(/[^a-z0-9-_]/gi, '_')
SanitizeChar(c) == IF c \in Lower \cup Upper \cup Digit \cup {"-", "_"} THEN c ELSE "_"

Sanitize(name) == [i \in 1..Len(name) |-> SanitizeChar(name[i])]

\* line 64: new ElevenLabsClient({apiKey}) always yields an object
NewElevenLabsClient == [object |-> TRUE, apiKey |-> ELEVEN_API_KEY]

\* ---------------------------------------------------------------- clock
Tick ==
    /\ now < MaxClock
    /\ now' = now + 1
    /\ UNCHANGED <<ELEVEN_API_KEY, XI_API_KEY, audios, uploads, dirs, req>>

\* ------------------------------------------- POST /api/generateAudio
\* lines 56-65: validation, client construction, voices.getAll() issued
GA_Start(r) ==
    /\ req[r].pc = "idle"
    /\ \E t \in Texts :
         LET q == [req[r] EXCEPT !.route = "generateAudio", !.text = t] IN
         req' = [req EXCEPT ![r] =
                   IF Falsy(t)
                   THEN [q EXCEPT !.pc = "done", !.status = 400, !.body = "json",
                                  !.msg = MsgTextRequired]
                   ELSE [q EXCEPT !.pc = "getAll", !.calls = 1]]
    /\ UNCHANGED <<ELEVEN_API_KEY, XI_API_KEY, now, audios, uploads, dirs>>

\* lines 65-88: voices.getAll() settles; the !client test; generate issued
GA_GetAll(r) ==
    /\ req[r].pc = "getAll"
    /\ \E ok \in BOOLEAN :
         req' = [req EXCEPT ![r] =
                   IF ~ok THEN Answer(r, 500, MsgGenerateError)
                   ELSE IF ~NewElevenLabsClient.object
                        THEN Answer(r, 500, MsgNotConfigured)
                        ELSE [req[r] EXCEPT !.pc = "generate", !.calls = @ + 1]]
    /\ UNCHANGED <<ELEVEN_API_KEY, XI_API_KEY, now, audios, uploads, dirs>>

\* line 88: client.generate settles
GA_Generate(r) ==
    /\ req[r].pc = "generate"
    /\ \E ok \in BOOLEAN :
         req' = [req EXCEPT ![r] =
                   IF ok THEN [req[r] EXCEPT !.pc = "stream"]
                   ELSE Answer(r, 500, MsgGenerateError)]
    /\ UNCHANGED <<ELEVEN_API_KEY, XI_API_KEY, now, audios, uploads, dirs>>

\* line 92: the generator yields one more chunk
GA_Chunk(r) ==
    /\ req[r].pc = "stream"
    /\ Len(req[r].chunks) < MaxChunks
    /\ \E ch \in Chunk :
         req' = [req EXCEPT ![r].chunks = Append(@, ch)]
    /\ UNCHANGED <<ELEVEN_API_KEY, XI_API_KEY, now, audios, uploads, dirs>>

\* line 92: the generator raises while being iterated
GA_StreamError(r) ==
    /\ req[r].pc = "stream"
    /\ req' = [req EXCEPT ![r] = Answer(r, 500, MsgGenerateError)]
    /\ UNCHANGED <<ELEVEN_API_KEY, XI_API_KEY, now, audios, uploads, dirs>>

\* lines 92-96: the generator is exhausted; buffer, filename, writeFile issued
GA_StreamEnd(r) ==
    /\ req[r].pc = "stream"
    /\ req' = [req EXCEPT ![r] =
                 [req[r] EXCEPT !.pc = "open", !.buffer = Concat(req[r].chunks),
                                !.filename = <<"tts", now>>]]
    /\ UNCHANGED <<ELEVEN_API_KEY, XI_API_KEY, now, audios, uploads, dirs>>

\* ------------------------------------------------- saveBufferToPublic
CatchMsg(r) == IF req[r].route = "generateAudio" THEN MsgGenerateError ELSE MsgS2SError

\* lines 50-51: fs.writeFile opens outPath (created or truncated), or fails
saveBufferToPublic_open(r) ==
    /\ req[r].pc = "open"
    /\ \E ok \in BOOLEAN :
         IF ok
         THEN /\ audios' = Truncate(audios, req[r].filename)
              /\ req' = [req EXCEPT ![r] = [req[r] EXCEPT !.pc = "write", !.opened = TRUE]]
         ELSE /\ audios' = audios
              /\ req' = [req EXCEPT ![r] = Answer(r, 500, CatchMsg(r))]
    /\ UNCHANGED <<ELEVEN_API_KEY, XI_API_KEY, now, uploads, dirs>>

\* lines 98, 131: res.json({ ok: true, audioUrl: publicPath })
Respond200(r) ==
    [req[r] EXCEPT !.pc = "done", !.status = 200, !.body = "json", !.msg = "ok",
                   !.audioUrl = PublicPath(req[r].filename)]

\* lines 51-52, 96-98, 126: the bytes are written; the handler resumes
saveBufferToPublic_write(r) ==
    /\ req[r].pc = "write"
    /\ audios' = WriteAt0(audios, req[r].filename, req[r].buffer)
    /\ req' = [req EXCEPT ![r] =
                 IF req[r].route = "generateAudio" THEN Respond200(r)
                 ELSE [req[r] EXCEPT !.pc = "unlink"]]
    /\ UNCHANGED <<ELEVEN_API_KEY, XI_API_KEY, now, uploads, dirs>>

\* ------------------------------------------------------------- multer
\* line 39: Date.now() + '-' + originalname with whitespace replaced
TempName == <<now, OriginalName>>
MulterOutcome == {"stored", "absent", "error"}

\* ------------------------------------------ POST /api/speech-to-speech
RECURSIVE SeqsUpTo(_)
SeqsUpTo(n) ==
    IF n = 0 THEN {<<>>}
    ELSE LET S == SeqsUpTo(n - 1) IN
         S \cup {Append(s, b) : s \in {t \in S : Len(t) = n - 1}, b \in Byte}

\* response.data of the provider
Buffers == SeqsUpTo(MaxChunks)

\* lines 106-122: multer has run; validation; axios.post issued
S2S_Start(r) ==
    /\ req[r].pc = "idle"
    /\ \E up \in MulterOutcome, v \in Voices :
         LET q == [req[r] EXCEPT !.route = "speech-to-speech", !.voice = v]
             f == [q EXCEPT !.file = TempName] IN
         CASE up = "error" ->
                /\ uploads' = uploads
                /\ req' = [req EXCEPT ![r] = DefaultErrorHandler(q)]
           [] up = "absent" ->
                /\ uploads' = uploads
                /\ req' = [req EXCEPT ![r] = [q EXCEPT !.pc = "done", !.status = 400,
                                               !.body = "json", !.msg = MsgFileRequired]]
           [] up = "stored" ->
                /\ uploads' = uploads \cup {TempName}
                /\ req' = [req EXCEPT ![r] =
                     IF Falsy(v)
                     THEN [f EXCEPT !.pc = "done", !.status = 400, !.body = "json",
                                    !.msg = MsgVoiceRequired]
                     ELSE IF ~ELEVEN_KEY
                     THEN [f EXCEPT !.pc = "done", !.status = 500, !.body = "json",
                                    !.msg = MsgNotConfigured]
                     ELSE [f EXCEPT !.pc = "post", !.calls = 1]]
    /\ UNCHANGED <<ELEVEN_API_KEY, XI_API_KEY, now, audios, dirs>>

\* lines 122-126: axios.post settles; outBuffer, filename, writeFile issued
S2S_Post(r) ==
    /\ req[r].pc = "post"
    /\ \/ req' = [req EXCEPT ![r] = Answer(r, 500, MsgS2SError)]
       \/ \E data \in Buffers :
            req' = [req EXCEPT ![r] =
                      [req[r] EXCEPT !.pc = "open", !.buffer = data,
                                     !.filename = <<"s2s", now>>]]
    /\ UNCHANGED <<ELEVEN_API_KEY, XI_API_KEY, now, audios, uploads, dirs>>

\* lines 129-131: fs.unlink(inputPath), errors swallowed; response sent
S2S_Unlink(r) ==
    /\ req[r].pc = "unlink"
    /\ \E ok \in BOOLEAN :
         IF ok /\ req[r].file \in uploads
         THEN /\ uploads' = uploads \ {req[r].file}
              /\ req' = [req EXCEPT ![r] = Respond200(r)]
         ELSE /\ uploads' = uploads
              /\ req' = [req EXCEPT ![r] = [Respond200(r) EXCEPT !.unlinkFailed = TRUE]]
    /\ UNCHANGED <<ELEVEN_API_KEY, XI_API_KEY, now, audios, dirs>>

\* --------------------------------------------------- POST /api/upload
\* lines 139-142
UP_Start(r) ==
    /\ req[r].pc = "idle"
    /\ \E up \in MulterOutcome :
         LET q == [req[r] EXCEPT !.route = "upload"] IN
         CASE up = "error" ->
                /\ uploads' = uploads
                /\ req' = [req EXCEPT ![r] = DefaultErrorHandler(q)]
           [] up = "absent" ->
                /\ uploads' = uploads
                /\ req' = [req EXCEPT ![r] = [q EXCEPT !.pc = "done", !.status = 400,
                                               !.body = "json", !.msg = MsgNoFile]]
           [] up = "stored" ->
                /\ uploads' = uploads \cup {TempName}
                /\ req' = [req EXCEPT ![r] = [q EXCEPT !.pc = "done", !.status = 200,
                                               !.body = "json", !.msg = "ok",
                                               !.file = TempName]]
    /\ UNCHANGED <<ELEVEN_API_KEY, XI_API_KEY, now, audios, dirs>>

\* --------------------------------------------- POST /api/createProject
\* line 150: fsSync.existsSync(projectFolderPath)
existsSync(name) == name \in dirs

\* lines 145-151: validation, sanitisation, existence test, mkdir issued
CP_Start(r) ==
    /\ req[r].pc = "idle"
    /\ \E p \in ProjectNameInputs :
         LET q == [req[r] EXCEPT !.route = "createProject", !.projectName = p] IN
         req' = [req EXCEPT ![r] =
            IF p.kind = "undefined" \/ p.chars = <<>>
            THEN [q EXCEPT !.pc = "done", !.status = 400, !.body = "json",
                           !.msg = MsgNameRequired]
            ELSE IF p.kind # "string"
            THEN [q EXCEPT !.pc = "done", !.status = 500, !.body = "json",
                           !.msg = MsgMkdirError]
            ELSE IF existsSync(Sanitize(p.chars))
            THEN [q EXCEPT !.pc = "done", !.status = 200, !.body = "json",
                           !.msg = MsgExists, !.sawExists = TRUE]
            ELSE [q EXCEPT !.pc = "mkdir"]]
    /\ UNCHANGED <<ELEVEN_API_KEY, XI_API_KEY, now, audios, uploads, dirs>>

\* lines 151-155: fs.mkdir(..., {recursive: true}) settles
CP_Mkdir(r) ==
    /\ req[r].pc = "mkdir"
    /\ \E ok \in BOOLEAN :
         IF ok
         THEN /\ dirs' = dirs \cup {Sanitize(req[r].projectName.chars)}
              /\ req' = [req EXCEPT ![r] = Answer(r, 200, MsgCreated)]
         ELSE /\ dirs' = dirs
              /\ req' = [req EXCEPT ![r] = Answer(r, 500, MsgMkdirError)]
    /\ UNCHANGED <<ELEVEN_API_KEY, XI_API_KEY, now, audios, uploads>>

\* ------------------------------------------------------ specifications
Next ==
    \/ Tick
    \/ \E r \in Req : GA_Start(r)
    \/ \E r \in Req : GA_GetAll(r)
    \/ \E r \in Req : GA_Generate(r)
    \/ \E r \in Req : GA_Chunk(r)
    \/ \E r \in Req : GA_StreamError(r)
    \/ \E r \in Req : GA_StreamEnd(r)
    \/ \E r \in Req : saveBufferToPublic_open(r)
    \/ \E r \in Req : saveBufferToPublic_write(r)
    \/ \E r \in Req : S2S_Start(r)
    \/ \E r \in Req : S2S_Post(r)
    \/ \E r \in Req : S2S_Unlink(r)
    \/ \E r \in Req : UP_Start(r)
    \/ \E r \in Req : CP_Start(r)
    \/ \E r \in Req : CP_Mkdir(r)

Spec == Init /\ [][Next]_vars

\* the two provider-calling routes only
NextAudio ==
    \/ Tick
    \/ \E r \in Req : GA_Start(r)
    \/ \E r \in Req : GA_GetAll(r)
    \/ \E r \in Req : GA_Generate(r)
    \/ \E r \in Req : GA_Chunk(r)
    \/ \E r \in Req : GA_StreamError(r)
    \/ \E r \in Req : GA_StreamEnd(r)
    \/ \E r \in Req : saveBufferToPublic_open(r)
    \/ \E r \in Req : saveBufferToPublic_write(r)
    \/ \E r \in Req : S2S_Start(r)
    \/ \E r \in Req : S2S_Post(r)
    \/ \E r \in Req : S2S_Unlink(r)

SpecAudio == Init /\ [][NextAudio]_vars

\* /api/generateAudio only
NextTTS ==
    \/ Tick
    \/ \E r \in Req : GA_Start(r)
    \/ \E r \in Req : GA_GetAll(r)
    \/ \E r \in Req : GA_Generate(r)
    \/ \E r \in Req : GA_Chunk(r)
    \/ \E r \in Req : GA_StreamError(r)
    \/ \E r \in Req : GA_StreamEnd(r)
    \/ \E r \in Req : saveBufferToPublic_open(r)
    \/ \E r \in Req : saveBufferToPublic_write(r)

SpecTTS == Init /\ [][NextTTS]_vars

\* /api/createProject only
NextProject ==
    \/ \E r \in Req : CP_Start(r)
    \/ \E r \in Req : CP_Mkdir(r)

SpecProject == Init /\ [][NextProject]_vars

\* ---------------------------------------------------------- properties
Answered(r) == req[r].pc = "done"
ProviderRoutes == {"generateAudio", "speech-to-speech"}
Succeeded(r) == Answered(r) /\ req[r].route \in ProviderRoutes /\ req[r].status = 200
ValidText(r) == req[r].route = "generateAudio" /\ req[r].text \notin {Undefined, ""}
ValidS2S(r) ==
    req[r].route = "speech-to-speech" /\ req[r].file # NoFile /\ req[r].voice # Undefined
NoCredential == ~ELEVEN_API_KEY /\ ~XI_API_KEY
ValidName(r) ==
    /\ req[r].route = "createProject"
    /\ req[r].projectName.kind = "string"
    /\ req[r].projectName.chars # <<>>
Allowed == Lower \cup Upper \cup Digit \cup {"-", "_"}
IsSanitized(name, d) ==
    /\ Len(d) = Len(name)
    /\ \A i \in 1..Len(name) : d[i] = IF name[i] \in Allowed THEN name[i] ELSE "_"

\* C1: the requests of the provider routes that succeeded were handed pairwise
\* distinct filenames, and as many files exist in audios as requests succeeded.
CE_C1 ==
    /\ \A r1, r2 \in Req :
         r1 # r2 /\ Succeeded(r1) /\ Succeeded(r2) => req[r1].audioUrl # req[r2].audioUrl
    /\ Cardinality(DOMAIN audios) >= Cardinality({r \in Req : Succeeded(r)})

\* C2: with no credential in the environment a provider route that passed its
\* input validation issues no upstream call, writes no file, and is answered
\* 500 with the 'not configured' message.
CE_C2 ==
    NoCredential =>
      \A r \in Req : ValidText(r) \/ ValidS2S(r) =>
          /\ req[r].calls = 0
          /\ ~req[r].opened
          /\ Answered(r) => req[r].status = 500 /\ req[r].msg = MsgNotConfigured

\* C3 (state part): a generateAudio request without text is answered 400 with
\* a JSON error body, has issued no upstream call and has opened no file.
Inv_C3 ==
    \A r \in Req :
      req[r].route = "generateAudio" /\ req[r].text \in {Undefined, ""} =>
          /\ Answered(r) /\ req[r].status = 400 /\ req[r].body = "json"
          /\ req[r].msg = MsgTextRequired
          /\ req[r].calls = 0 /\ ~req[r].opened /\ req[r].filename = NoFile
          /\ req[r].audioUrl = NoUrl

\* C3 (step part): the step that handles such a request leaves the audios
\* directory as it was, and the request takes no step afterwards.
Act_C3 ==
    \A r \in Req :
      /\ (req'[r].route = "generateAudio" /\ req'[r].text \in {Undefined, ""}
          /\ req[r] # req'[r]) => (req[r].pc = "idle" /\ audios' = audios)

\* C3: a /api/generateAudio request whose body has no text (absent or empty) is
\* answered 400 with an error body, writes no file and issues no upstream
\* call, whatever the other requests are doing.
Thm_C3 == []Inv_C3 /\ [][Act_C3]_vars

\* C3 witness: an empty-text request has been answered 400 while another
\* request is in the middle of writing its artifact.
Wit_C3 ==
    \E r1, r2 \in Req :
      /\ req[r1].route = "generateAudio" /\ req[r1].text = "" /\ req[r1].status = 400
      /\ req[r2].pc = "write" /\ DOMAIN audios # {}

\* C4: a generateAudio request with a valid text that was answered with success
\* carries the reference audios/<filename>, which resolves to a non-empty file.
CE_C4 ==
    \A r \in Req : ValidText(r) /\ Answered(r) /\ req[r].status = 200 =>
        /\ req[r].audioUrl = [dir |-> "audios", file |-> req[r].filename]
        /\ ServeStatic(req[r].audioUrl).status = 200
        /\ Len(ServeStatic(req[r].audioUrl).bytes) > 0

\* C5 as stated: every answered createProject call with a non-empty name has
\* its sanitised directory, and reports 'created' unless an earlier call with
\* the same projectName created it.
CE_C5 ==
    \A r \in Req : ValidName(r) /\ Answered(r) =>
        /\ \E d \in dirs : IsSanitized(req[r].projectName.chars, d)
        /\ \/ req[r].msg = MsgCreated
           \/ /\ req[r].msg = MsgExists
              /\ \E r2 \in Req \ {r} : /\ req[r2].projectName = req[r].projectName
                                       /\ req[r2].msg = MsgCreated

\* C5 amended (state part): 'created' means the call found no entry and the
\* directory with the sanitised name now exists; 'already exists' means the
\* call found the entry; 'My Project!' gives 'My_Project_'.
Inv_C5 ==
    /\ \A r \in Req : ValidName(r) /\ Answered(r) =>
         /\ req[r].msg \in {MsgCreated, MsgExists, MsgMkdirError}
         /\ req[r].msg = MsgCreated =>
              /\ req[r].status = 200 /\ ~req[r].sawExists
              /\ \E d \in dirs : IsSanitized(req[r].projectName.chars, d)
              /\ req[r].projectName.chars = MyProject => My_Project_ \in dirs
         /\ req[r].msg = MsgExists =>
              /\ req[r].status = 200 /\ req[r].sawExists
              /\ \E d \in dirs : IsSanitized(req[r].projectName.chars, d)
    /\ \A d \in dirs : \A i \in 1..Len(d) : d[i] \in Allowed

\* C5 amended (step part): a call that finds the sanitised name present
\* reports 'already exists' and changes no directory; a call that reports
\* 'created' adds exactly the sanitised name; directories are never removed.
Act_C5 ==
    \A r \in Req :
      /\ (req[r].pc = "idle" /\ ValidName(r)' /\
          (\E d \in dirs : IsSanitized(req'[r].projectName.chars, d))) =>
             (req'[r].msg = MsgExists /\ dirs' = dirs)
      /\ (req[r].pc = "idle" /\ ValidName(r)' /\
          ~(\E d \in dirs : IsSanitized(req'[r].projectName.chars, d))) =>
             (req'[r].pc = "mkdir" /\ dirs' = dirs)
      /\ (req[r].pc = "mkdir" /\ req'[r].msg = MsgCreated) =>
             (\E d \in dirs' : /\ IsSanitized(req[r].projectName.chars, d)
                               /\ dirs' = dirs \cup {d})
      /\ dirs \subseteq dirs'

\* C5 amended: for a non-empty string projectName, a createProject call that
\* finds no entry with the sanitised name and whose mkdir succeeds creates the
\* directory named projectName with every character outside [A-Za-z0-9_-]
\* replaced by '_' and reports 'created'; a call that finds the entry present
\* reports 'already exists' and leaves the directories unchanged.
Thm_C5 == []Inv_C5 /\ [][Act_C5]_vars

\* C5 witness: 'My Project!' was created as 'My_Project_' by one call and a
\* later call with the same name was told it already exists.
Wit_C5 ==
    \E r1, r2 \in Req :
      /\ req[r1].projectName.chars = MyProject /\ req[r1].msg = MsgCreated
      /\ req[r2].projectName.chars = MyProject /\ req[r2].msg = MsgExists
      /\ My_Project_ \in dirs

\* C6: a provider-route request that passed validation never has more than one
\* upstream call, and has issued exactly one when it is answered.
CE_C6 ==
    \A r \in Req :
      (ValidText(r) \/ (ValidS2S(r) /\ ELEVEN_KEY)) =>
          /\ req[r].calls <= 1
          /\ Answered(r) => req[r].calls = 1

\* C7: every file visible under audios/ holds the complete bytes of one write
\* call that targeted it.
CE_C7 ==
    \A f \in DOMAIN audios :
      \E r \in Req : req[r].opened /\ req[r].filename = f /\ audios[f] = req[r].buffer

\* C8: every request answered with an error carries a JSON error body and a
\* status of 400 or 500.
CE_C8 ==
    \A r \in Req : Answered(r) /\ req[r].status # 200 =>
        req[r].body = "json" /\ req[r].status \in {400, 500}

\* C9: among the answered createProject requests whose names sanitise to the
\* same directory name, at most one reports 'created' (I/O failures aside).
CE_C9 ==
    \A r1, r2 \in Req :
      ( /\ r1 # r2 /\ ValidName(r1) /\ ValidName(r2)
        /\ Answered(r1) /\ Answered(r2)
        /\ Sanitize(req[r1].projectName.chars) = Sanitize(req[r2].projectName.chars) )
      => ~(req[r1].msg = MsgCreated /\ req[r2].msg = MsgCreated)

\* C10: once a speech-to-speech request that uploaded a file is answered, its
\* temporary file is gone from uploads/, unless the delete itself failed.
CE_C10 ==
    \A r \in Req :
      ( /\ req[r].route = "speech-to-speech" /\ Answered(r)
        /\ req[r].file # NoFile /\ ~req[r].unlinkFailed )
      => req[r].file \notin uploads
====
